---- MODULE Spec2Model ----
(***************************************************************************)
(* go-todo-cli: a todos table in PostgreSQL, the repository that runs the  *)
(* five SQL statements against it, the todo service on top of it and the   *)
(* `list` command of the CLI.                                              *)
(*                                                                         *)
(*   Spec      the service driven by a single user, from an empty table    *)
(*   SpecRepo  the repository driven directly, as its test suite drives it *)
(*   SpecList  the list command run against any table the schema admits    *)
(*   SpecProc  one CLI process after another, from main to exit            *)
(*   SpecConc  two CLI processes at once, interleaved at each statement    *)
(***************************************************************************)
EXTENDS Integers, Sequences, FiniteSets, TLC

\* Bounds of the model.
MaxTodos == 2        \* how many ids uuid.New() hands out
MaxTime  == 1        \* the clock reads 0..MaxTime

\* uuid.New() returns one of UUIDs; the user may also type uuid.Nil, which
\* uuid.Parse accepts and uuid.New() never returns.
UUIDs   == 1..MaxTodos
NilUUID == 0

\* Instants, in ticks no finer than the microsecond a timestamptz column keeps.
Times   == 0..MaxTime

\* The requests a user submits (domain.CreateTodoRequest, and the title and
\* description of domain.UpdateTodoRequest): the empty string is what an
\* omitted flag yields. The two differ in both fields, and both fit the
\* columns of the table (title VARCHAR(255) NOT NULL, description TEXT).
Requests == {[title |-> "Buy milk", description |-> ""],
             [title |-> "", description |-> "2 litres"]}

\* Errors as the callers see them.
ErrNil             == "nil"
ErrNoRows          == "no rows in result set"
ErrUniqueViolation == "duplicate key value violates unique constraint"

VARIABLES
    store,      \* the rows of table todos
    now,        \* the last value time.Now() returned
    issued,     \* the ids uuid.New() has returned so far
    deleted,    \* history: the ids for which DeleteTodo has returned nil
    last,       \* history: the last call, its arguments and what it returned
    prev,       \* history: a summary of the call before it
    procs       \* the CLI processes: where each is and what it has done

vars == <<store, now, issued, deleted, last, prev, procs>>

(***************************************************************************)
(* domain.Todo and the rows of table todos                                 *)
(***************************************************************************)
Todo(id, title, description, completed, createdAt, updatedAt) ==
    [id |-> id, title |-> title, description |-> description,
     completed |-> completed, created_at |-> createdAt, updated_at |-> updatedAt]

RowsOf(s, id) == {r \in s : r.id = id}
IdsOf(s) == {r.id : r \in s}
TheOne(S) == CHOOSE x \in S : TRUE

(***************************************************************************)
(* repository.TodoRepository: each method is one SQL statement, and its    *)
(* error is the error of that statement alone.                             *)
(***************************************************************************)

\* SELECT ... WHERE id = $1, Scan: pgx reports ErrNoRows when no row matches.
RepoFindByIDAnyRow(s, id) ==
    IF s = {}
    THEN [err |-> ErrNoRows, todo |-> {}]
    ELSE [err |-> ErrNil, todo |-> {TheOne(s)}]
RepoFindByID(s, id) ==
    IF RowsOf(s, id) = {}
    THEN [err |-> ErrNoRows, todo |-> {}]
    ELSE [err |-> ErrNil, todo |-> {TheOne(RowsOf(s, id))}]

\* SELECT ... ORDER BY created_at DESC: every row once, newest first; rows of
\* equal created_at come in an order the database chooses.
FindAllResultsOldestFirst(s) ==
    {q \in [1..Cardinality(s) -> s] :
        /\ \A r \in s : \E i \in 1..Cardinality(s) : q[i] = r
        /\ \A i, j \in 1..Cardinality(s) :
              i < j => q[i].created_at <= q[j].created_at}
FindAllResults(s) ==
    {q \in [1..Cardinality(s) -> s] :
        /\ \A r \in s : \E i \in 1..Cardinality(s) : q[i] = r
        /\ \A i, j \in 1..Cardinality(s) :
              i < j => q[i].created_at >= q[j].created_at}

\* INSERT of all six columns; id is the PRIMARY KEY of the table.
RepoCreateNoKey(s, todo) == [err |-> ErrNil, store |-> s \cup {todo}]
RepoCreate(s, todo) ==
    IF RowsOf(s, todo.id) # {}
    THEN [err |-> ErrUniqueViolation, store |-> s]
    ELSE [err |-> ErrNil, store |-> s \cup {todo}]

\* UPDATE todos SET title, description, updated_at WHERE id: the columns
\* completed and created_at are not written, and the command tag (rows
\* affected) is discarded, so a statement that matches nothing returns nil.
RepoUpdate(s, todo) ==
    [err |-> ErrNil,
     store |-> {IF r.id = todo.id
                THEN [r EXCEPT !.title = todo.title,
                               !.description = todo.description,
                               !.updated_at = todo.updated_at]
                ELSE r : r \in s}]

\* DELETE FROM todos WHERE id: the command tag is discarded here too.
RepoDeleteNothing(s, id) == [err |-> ErrNil, store |-> s]
RepoDelete(s, id) == [err |-> ErrNil, store |-> {r \in s : r.id # id}]

(***************************************************************************)
(* history records                                                         *)
(***************************************************************************)
Call(op, id, req, err, ret, before) ==
    [op |-> op, id |-> id, req |-> req, err |-> err, ret |-> ret, before |-> before]

NoReq == [title |-> "", description |-> ""]
NoCall == Call("none", NilUUID, NoReq, ErrNil, {}, {})

\* What is kept of the call before the last one: whether it was a ToggleTodo
\* that returned an entity, on which id, and the completed it found stored.
NoSummary == [op |-> "other", id |-> NilUUID, completed |-> FALSE]
Summary(c) ==
    IF c.op = "ToggleTodo" /\ c.err = ErrNil /\ c.before # {}
    THEN [op |-> c.op, id |-> c.id, completed |-> TheOne(c.before).completed]
    ELSE NoSummary

(***************************************************************************)
(* service.todoServiceImpl                                                 *)
(***************************************************************************)

\* The ids a user can name: the ones the program has printed, and uuid.Nil.
KnownIds == issued \cup {NilUUID}

\* uuid.New(): an id it has not returned before. The ids are interchangeable,
\* so the model hands them out in order.
NewUUID == CHOOSE id \in UUIDs \ issued : \A other \in UUIDs \ issued : id <= other

\* The entity CreateTodo builds; t1 and t2 are its two reads of time.Now().
NewTodoSwappedTimes(id, request, t1, t2) ==
    Todo(id, request.title, request.description, FALSE, t2, t1)
NewTodo(id, request, t1, t2) ==
    Todo(id, request.title, request.description, FALSE, t1, t2)

CreateTodo ==
    /\ UUIDs \ issued # {}
    /\ \E request \in Requests :
       \E t1 \in now..MaxTime :
       \E t2 \in t1..MaxTime :
        LET id == NewUUID
            todo == NewTodo(id, request, t1, t2)
            r == RepoCreate(store, todo)
        IN  /\ store' = r.store
            /\ now' = t2
            /\ issued' = issued \cup {id}
            /\ last' = Call("CreateTodo", id, request, r.err,
                            IF r.err = ErrNil THEN {todo} ELSE {}, {})
            /\ prev' = Summary(last) /\ UNCHANGED procs
            /\ UNCHANGED deleted

\* UpdateTodo's assignments to the entity FindByID returned; t is time.Now().
UpdatedTodoKeepsTime(todo, request, t) ==
    [todo EXCEPT !.title = request.title, !.description = request.description]
UpdatedTodo(todo, request, t) ==
    [todo EXCEPT !.title = request.title,
                 !.description = request.description,
                 !.updated_at = t]

UpdateTodo ==
    \E id \in KnownIds, request \in Requests :
    \E t \in now..MaxTime :
        LET f == RepoFindByID(store, id)
        IN  IF f.err # ErrNil
            THEN /\ last' = Call("UpdateTodo", id, request, f.err, {}, RowsOf(store, id))
                 /\ prev' = Summary(last) /\ UNCHANGED procs
                 /\ UNCHANGED <<store, now, issued, deleted>>
            ELSE LET todo == UpdatedTodo(TheOne(f.todo), request, t)
                     u == RepoUpdate(store, todo)
                 IN  /\ store' = u.store
                     /\ now' = t
                     /\ last' = Call("UpdateTodo", id, request, u.err,
                                     IF u.err = ErrNil THEN {todo} ELSE {},
                                     RowsOf(store, id))
                     /\ prev' = Summary(last) /\ UNCHANGED procs
                     /\ UNCHANGED <<issued, deleted>>

DeleteTodo ==
    \E id \in KnownIds :
        LET d == RepoDelete(store, id)
        IN  /\ store' = d.store
            /\ deleted' = IF d.err = ErrNil THEN deleted \cup {id} ELSE deleted
            /\ last' = Call("DeleteTodo", id, NoReq, d.err, {}, RowsOf(store, id))
            /\ prev' = Summary(last) /\ UNCHANGED procs
            /\ UNCHANGED <<now, issued>>

\* ToggleTodo's assignment to the entity FindByID returned.
ToggledTodo(todo) == [todo EXCEPT !.completed = ~todo.completed]

ToggleTodo ==
    \E id \in KnownIds :
        LET f == RepoFindByID(store, id)
        IN  IF f.err # ErrNil
            THEN /\ last' = Call("ToggleTodo", id, NoReq, f.err, {}, RowsOf(store, id))
                 /\ prev' = Summary(last) /\ UNCHANGED procs
                 /\ UNCHANGED <<store, now, issued, deleted>>
            ELSE LET todo == ToggledTodo(TheOne(f.todo))
                     u == RepoUpdate(store, todo)
                 IN  /\ store' = u.store
                     /\ last' = Call("ToggleTodo", id, NoReq, u.err,
                                     IF u.err = ErrNil THEN {todo} ELSE {},
                                     RowsOf(store, id))
                     /\ prev' = Summary(last) /\ UNCHANGED procs
                     /\ UNCHANGED <<now, issued, deleted>>

FindTodoByID ==
    \E id \in KnownIds :
        LET f == RepoFindByID(store, id)
        IN  /\ last' = Call("FindTodoByID", id, NoReq, f.err, f.todo, RowsOf(store, id))
            /\ prev' = Summary(last) /\ UNCHANGED procs
            /\ UNCHANGED <<store, now, issued, deleted>>

(***************************************************************************)
(* cli.CLI: the list command                                               *)
(***************************************************************************)

\* The two `continue` tests of the loop: TRUE when the todo is appended.
RetainPendingInverted(todo, filterCompleted, filterPending) ==
    IF filterCompleted /\ ~todo.completed THEN FALSE
    ELSE IF filterPending /\ ~todo.completed THEN FALSE
    ELSE TRUE
Retain(todo, filterCompleted, filterPending) ==
    IF filterCompleted /\ ~todo.completed THEN FALSE
    ELSE IF filterPending /\ todo.completed THEN FALSE
    ELSE TRUE

\* The loop over the fetched todos from index i on: filteredTodos grows by
\* each retained todo, and printTodoTable(filteredTodos) runs inside the
\* loop, right after each append.
RECURSIVE ListLoop(_, _, _, _, _, _)
ListLoop(todos, i, filterCompleted, filterPending, filteredTodos, tables) ==
    IF i > Len(todos)
    THEN [retained |-> filteredTodos, tables |-> tables]
    ELSE IF Retain(todos[i], filterCompleted, filterPending)
         THEN ListLoop(todos, i + 1, filterCompleted, filterPending,
                       Append(filteredTodos, todos[i]),
                       Append(tables, Append(filteredTodos, todos[i])))
         ELSE ListLoop(todos, i + 1, filterCompleted, filterPending,
                       filteredTodos, tables)

ListCommand ==
    \E filterCompleted \in BOOLEAN, filterPending \in BOOLEAN :
    \E todos \in FindAllResults(store) :
        LET loop == ListLoop(todos, 1, filterCompleted, filterPending, <<>>, <<>>)
        IN  /\ last' = [op |-> "list", id |-> NilUUID, req |-> NoReq,
                        err |-> ErrNil, ret |-> {}, before |-> {},
                        completed |-> filterCompleted, pending |-> filterPending,
                        fetched |-> todos,
                        noTodos |-> (Len(todos) = 0),
                        retained |-> loop.retained,
                        tables |-> loop.tables]
            /\ prev' = Summary(last) /\ UNCHANGED procs
            /\ UNCHANGED <<store, now, issued, deleted>>

(***************************************************************************)
(* Spec: the service driven by a single user, from an empty table          *)
(***************************************************************************)
\* The processes that may run the CLI, and a process not yet started.
Procs == {"A", "B"}
NoProc ==
    [pc |-> "off", cmd |-> "none", parsed |-> TRUE, id |-> NilUUID, req |-> NoReq,
     todo |-> {}, err |-> ErrNil, pool |-> "none", pings |-> 0, healthy |-> FALSE,
     svc |-> 0, gw |-> 0, code |-> 0, path |-> "none"]

Init ==
    /\ store = {}
    /\ now = 0
    /\ issued = {}
    /\ deleted = {}
    /\ last = NoCall
    /\ prev = NoSummary
    /\ procs = [p \in Procs |-> NoProc]

Next ==
    \/ CreateTodo
    \/ UpdateTodo
    \/ DeleteTodo
    \/ ToggleTodo
    \/ FindTodoByID

Spec == Init /\ [][Next]_vars

(***************************************************************************)
(* SpecList: the list command against any table the schema admits          *)
(***************************************************************************)
WellFormedRows(id) ==
    {r \in {Todo(id, request.title, request.description, completed, t1, t2) :
                request \in Requests, completed \in BOOLEAN,
                t1 \in Times, t2 \in Times} :
        r.created_at <= r.updated_at}

InitList ==
    /\ \E ids \in SUBSET UUIDs :
       \E rowOf \in [ids -> UNION {WellFormedRows(id) : id \in UUIDs}] :
          /\ \A id \in ids : rowOf[id].id = id
          /\ store = {rowOf[id] : id \in ids}
    /\ now = MaxTime
    /\ issued = IdsOf(store)
    /\ deleted = {}
    /\ last = NoCall
    /\ prev = NoSummary
    /\ procs = [p \in Procs |-> NoProc]

NextList == ListCommand

SpecList == InitList /\ [][NextList]_vars

(***************************************************************************)
(* SpecRepo: the repository called directly, as TodoRepositoryTestSuite    *)
(* calls it: any entity, any id, whether or not the table holds it. The    *)
(* suite stamps its entities with the current instant.                     *)
(***************************************************************************)
TestTodos ==
    {Todo(id, request.title, request.description, completed, now, now) :
        id \in UUIDs, request \in Requests, completed \in BOOLEAN}

RepoCall(op, todo, id, err, ret, before) ==
    [op |-> op, id |-> id, req |-> NoReq, err |-> err, ret |-> ret,
     before |-> before, todo |-> todo]

Create ==
    \E todo \in TestTodos :
        LET r == RepoCreate(store, todo)
        IN  /\ store' = r.store
            /\ last' = RepoCall("Create", {todo}, todo.id, r.err, {}, RowsOf(store, todo.id))
            /\ prev' = Summary(last) /\ UNCHANGED procs
            /\ UNCHANGED <<now, issued, deleted>>

Update ==
    \E todo \in TestTodos :
        LET u == RepoUpdate(store, todo)
        IN  /\ store' = u.store
            /\ last' = RepoCall("Update", {todo}, todo.id, u.err, {}, RowsOf(store, todo.id))
            /\ prev' = Summary(last) /\ UNCHANGED procs
            /\ UNCHANGED <<now, issued, deleted>>

Delete ==
    \E id \in UUIDs :
        LET d == RepoDelete(store, id)
        IN  /\ store' = d.store
            /\ last' = RepoCall("Delete", {}, id, d.err, {}, RowsOf(store, id))
            /\ prev' = Summary(last) /\ UNCHANGED procs
            /\ UNCHANGED <<now, issued, deleted>>

FindByID ==
    \E id \in UUIDs :
        LET f == RepoFindByID(store, id)
        IN  /\ last' = RepoCall("FindByID", {}, id, f.err, f.todo, RowsOf(store, id))
            /\ prev' = Summary(last) /\ UNCHANGED procs
            /\ UNCHANGED <<store, now, issued, deleted>>

NextRepo ==
    \/ Create
    \/ Update
    \/ Delete
    \/ FindByID

SpecRepo == Init /\ [][NextRepo]_vars

(***************************************************************************)
(* A CLI process: main, cli.NewCLI, CLI.Execute, the root command's        *)
(* PersistentPreRun, the command's Run and the service call it makes. Each *)
(* step holds at most one statement sent to the database, so that two      *)
(* processes interleave between the statements of one service call.        *)
(***************************************************************************)
Commands == {"list", "find", "create", "update", "delete", "toggle"}
TakesId == {"find", "update", "delete", "toggle"}

Set(p, fields) == procs' = [procs EXCEPT ![p] = fields @@ procs[p]]

\* main, NewCLI, createDBPool: NewWithConfig, then Ping; log.Fatalf on either
\* error, without closing a pool NewWithConfig has returned.
NewCLI(p) ==
    /\ procs[p].pc \in {"off", "exited"}
    /\ \E outcome \in {"connected", "no pool", "no ping"} :
          procs' = [procs EXCEPT ![p] =
              IF outcome = "connected"
              THEN [NoProc EXCEPT !.pc = "execute", !.pool = "open"]
              ELSE [NoProc EXCEPT !.pc = "exited", !.code = 1, !.path = "startup",
                                  !.pool = IF outcome = "no ping" THEN "open" ELSE "none"]]
    /\ UNCHANGED <<store, now, issued, deleted, last, prev>>

\* CLI.Execute: defer dbPool.Close(), then rootCmd.Execute(), which finds the
\* command and validates its arguments before any hook runs. An error it
\* returns reaches main after the deferred Close, and main exits with 1.
Execute(p) ==
    /\ procs[p].pc = "execute"
    /\ \/ Set(p, [pc |-> "exited", pool |-> "closed", code |-> 1, path |-> "framework"])
       \/ Set(p, [pc |-> "prerun", cmd |-> "list"])
       \/ \E request \in Requests :
             Set(p, [pc |-> "prerun", cmd |-> "create", req |-> request])
       \/ \E cmd \in TakesId \ {"update"} :
             \/ Set(p, [pc |-> "prerun", cmd |-> cmd, parsed |-> FALSE])
             \/ \E id \in KnownIds : Set(p, [pc |-> "prerun", cmd |-> cmd, id |-> id])
       \/ \E request \in Requests :
             \/ Set(p, [pc |-> "prerun", cmd |-> "update", req |-> request,
                        parsed |-> FALSE])
             \/ \E id \in KnownIds :
                   Set(p, [pc |-> "prerun", cmd |-> "update", req |-> request, id |-> id])
    /\ UNCHANGED <<store, now, issued, deleted, last, prev>>

\* PersistentPreRun: Ping; on an error it prints and calls os.Exit(1), which
\* runs no deferred call.
AfterPingContinue(ok) == "run"
AfterPing(ok) == IF ok THEN "run" ELSE "exited"

PersistentPreRun(p) ==
    /\ procs[p].pc = "prerun"
    /\ \E ok \in BOOLEAN :
          Set(p, [pc |-> AfterPing(ok), pings |-> procs[p].pings + 1, healthy |-> ok,
                  code |-> IF ok THEN 0 ELSE 1,
                  path |-> IF ok THEN "none" ELSE "health"])
    /\ UNCHANGED <<store, now, issued, deleted, last, prev>>

\* Where UpdateTodo and ToggleTodo go after their FindByID: on to Update, or
\* back to the command with the error.
AfterFindNoWrite(err) == "return"
AfterFind(err) == IF err # ErrNil THEN "return" ELSE "loaded"

\* The command's Run up to and including the first statement of its service
\* call: uuid.Parse of the argument, then FindAllTodos, FindTodoByID,
\* CreateTodo, DeleteTodo, or the FindByID of UpdateTodo and ToggleTodo.
Run(p) ==
    LET me == procs[p]
        called == [svc |-> me.svc + 1, gw |-> me.gw + 1]
    IN
    /\ me.pc = "run"
    /\ IF me.cmd \in TakesId /\ ~me.parsed
       THEN /\ Set(p, [pc |-> "return", err |-> "invalid UUID"])
            /\ UNCHANGED <<store, now, issued>>
       ELSE CASE me.cmd = "list" ->
                 /\ \E todos \in FindAllResults(store) :
                       Set(p, [pc |-> "return", err |-> ErrNil] @@ called)
                 /\ UNCHANGED <<store, now, issued>>
              [] me.cmd = "find" ->
                 LET f == RepoFindByID(store, me.id)
                 IN  /\ Set(p, [pc |-> "return", err |-> f.err, todo |-> f.todo] @@ called)
                     /\ UNCHANGED <<store, now, issued>>
              [] me.cmd = "create" ->
                 /\ UUIDs \ issued # {}
                 /\ \E t1 \in now..MaxTime :
                    \E t2 \in t1..MaxTime :
                       LET todo == NewTodo(NewUUID, me.req, t1, t2)
                           r == RepoCreate(store, todo)
                       IN  /\ store' = r.store
                           /\ now' = t2
                           /\ issued' = issued \cup {todo.id}
                           /\ Set(p, [pc |-> "return", err |-> r.err, id |-> todo.id,
                                      todo |-> IF r.err = ErrNil THEN {todo} ELSE {}]
                                     @@ called)
              [] me.cmd = "delete" ->
                 LET d == RepoDelete(store, me.id)
                 IN  /\ store' = d.store
                     /\ Set(p, [pc |-> "return", err |-> d.err] @@ called)
                     /\ UNCHANGED <<now, issued>>
              [] me.cmd \in {"update", "toggle"} ->
                 LET f == RepoFindByID(store, me.id)
                 IN  /\ Set(p, [pc |-> AfterFind(f.err), err |-> f.err, todo |-> f.todo]
                               @@ called)
                     /\ UNCHANGED <<store, now, issued>>
    /\ UNCHANGED <<deleted, last, prev>>

\* The rest of UpdateTodo and ToggleTodo: the assignments to the entity found
\* and the repository's Update of it.
Write(p) ==
    LET me == procs[p]
    IN
    /\ me.pc = "loaded"
    /\ \E t \in now..MaxTime :
          LET todo == IF me.cmd = "update"
                      THEN UpdatedTodo(TheOne(me.todo), me.req, t)
                      ELSE ToggledTodo(TheOne(me.todo))
              u == RepoUpdate(store, todo)
          IN  /\ me.cmd = "toggle" => t = now
              /\ store' = u.store
              /\ now' = t
              /\ Set(p, [pc |-> "return", err |-> u.err, gw |-> me.gw + 1,
                         todo |-> IF u.err = ErrNil THEN {todo} ELSE {}])
    /\ UNCHANGED <<issued, deleted, last, prev>>

\* Run prints the result or the error and returns; rootCmd.Execute returns
\* nil, the deferred Close runs, and main returns.
Return(p) ==
    /\ procs[p].pc = "return"
    /\ Set(p, [pc |-> "exited", pool |-> "closed", code |-> 0,
               path |-> IF procs[p].err # ErrNil THEN "handled" ELSE "normal"])
    /\ UNCHANGED <<store, now, issued, deleted, last, prev>>

Step(p) ==
    \/ NewCLI(p)
    \/ Execute(p)
    \/ PersistentPreRun(p)
    \/ Run(p)
    \/ Write(p)
    \/ Return(p)

(***************************************************************************)
(* SpecProc: one process at a time. SpecConc: two at once.                 *)
(***************************************************************************)
NextProc == Step("A")

SpecProc == Init /\ [][NextProc]_vars

NextConc == \E p \in Procs : Step(p)

SpecConc == Init /\ [][NextConc]_vars

(***************************************************************************)
(* The claims                                                              *)
(***************************************************************************)
Stored(id) == TheOne(RowsOf(store, id))
InSeq(x, q) == \E i \in 1..Len(q) : q[i] = x
Returned == TheOne(last.ret)
FoundBefore == TheOne(last.before)
ToggleReturned == last.op = "ToggleTodo" /\ last.err = ErrNil

\* C1: a ToggleTodo(id) that returns an entity has flipped completed in the
\* store: the returned entity, and the entity a FindTodoByID(id) now returns,
\* both carry the negation of the completed stored before the call.
C1_ToggleFlipsStored ==
    ToggleReturned =>
        /\ last.before # {}
        /\ Returned.completed = ~FoundBefore.completed
        /\ RepoFindByID(store, last.id).err = ErrNil
        /\ TheOne(RepoFindByID(store, last.id).todo).completed = ~FoundBefore.completed

\* C2: two consecutive ToggleTodo(id) calls that both return an entity leave
\* completed at its original value, and the second returns an entity whose
\* completed is the value stored before the first.
C2_ToggleInvolution ==
    (ToggleReturned /\ prev.op = "ToggleTodo" /\ prev.id = last.id) =>
        /\ RowsOf(store, last.id) # {}
        /\ Stored(last.id).completed = prev.completed
        /\ Returned.completed = prev.completed

\* C3: the repository's Update with an id that matches no row returns a
\* NotFound error and leaves the table as it was.
C3_UpdateMissingIsNotFound ==
    [][(last'.op = "Update" /\ RowsOf(store, last'.id) = {}) =>
            (last'.err = ErrNoRows /\ store' = store)]_vars

\* C4: DeleteTodo(id) with an id that matches no row returns a NotFound error
\* and leaves the table as it was; it returns nil only when a row with that
\* id existed and has been removed.
C4_DeleteMissingIsNotFound ==
    [][last'.op = "DeleteTodo" =>
            IF RowsOf(store, last'.id) = {}
            THEN last'.err = ErrNoRows /\ store' = store
            ELSE last'.err = ErrNil /\ store' = store \ RowsOf(store, last'.id)]_vars

\* C5: once DeleteTodo(id) has returned nil, FindByID(id) fails with NotFound
\* and FindAll returns no row of that id, in every later state; the delete
\* itself changes no other row.
C5_DeletionIsPermanent ==
    /\ [](\A id \in deleted :
            /\ RepoFindByID(store, id).err = ErrNoRows
            /\ \A todos \in FindAllResults(store) :
                  \A i \in 1..Len(todos) : todos[i].id # id)
    /\ [][(last'.op = "DeleteTodo" /\ last'.err = ErrNil) =>
            store' = store \ RowsOf(store, last'.id)]_vars

C5_Witness ==
    /\ last.op = "FindTodoByID"
    /\ last.id \in deleted \cap issued
    /\ last.err = ErrNoRows
    /\ store # {}

C7_CreatedTodo ==
    (last.op = "CreateTodo" /\ last.err = ErrNil) =>
        /\ last.ret # {}
        /\ Returned.completed = FALSE
        /\ Returned.created_at = Returned.updated_at
        /\ Returned.title = last.req.title
        /\ Returned.description = last.req.description
        /\ RowsOf(store, last.id) = {Returned}

\* C8: an UpdateTodo(request) that returns an entity has set the stored title
\* and description to the request's and updated_at to the time it read, and
\* has left the row's id, created_at and completed, and every other row, as
\* they were.
C8_UpdateFrame ==
    [][(last'.op = "UpdateTodo" /\ last'.err = ErrNil) =>
            /\ Cardinality(RowsOf(store, last'.id)) = 1
            /\ Cardinality(RowsOf(store', last'.id)) = 1
            /\ LET old == TheOne(RowsOf(store, last'.id))
                   new == TheOne(RowsOf(store', last'.id))
               IN  /\ new.title = last'.req.title
                   /\ new.description = last'.req.description
                   /\ new.updated_at = now'
                   /\ new.updated_at >= old.updated_at
                   /\ new.id = old.id
                   /\ new.created_at = old.created_at
                   /\ new.completed = old.completed
                   /\ last'.ret = {new}
                   /\ store' \ {new} = store \ {old}]_vars

C8_Witness ==
    /\ last.op = "UpdateTodo"
    /\ last.err = ErrNil
    /\ Cardinality(store) = 2
    /\ Stored(last.id).title # FoundBefore.title
    /\ Stored(last.id).description # FoundBefore.description
    /\ Stored(last.id).updated_at > FoundBefore.updated_at

\* C9: every stored todo has created_at <= updated_at in every reachable
\* state, and no step changes the created_at of a row.
C9_CreatedBeforeUpdated ==
    /\ [](\A r \in store : r.created_at <= r.updated_at)
    /\ [][\A r \in store : \A r2 \in RowsOf(store', r.id) :
            r2.created_at = r.created_at]_vars

C9_Witness ==
    /\ last.op = "UpdateTodo"
    /\ last.err = ErrNil
    /\ Stored(last.id).created_at < Stored(last.id).updated_at
    /\ FoundBefore.created_at = FoundBefore.updated_at
    /\ deleted \cap issued # {}

C11_FindAllOrdered ==
    last.op = "list" =>
        /\ last.err = ErrNil
        /\ Len(last.fetched) = Cardinality(store)
        /\ \A i \in 1..Len(last.fetched) : last.fetched[i] \in store
        /\ \A r \in store :
              Cardinality({i \in 1..Len(last.fetched) : last.fetched[i] = r}) = 1
        /\ \A i, j \in 1..Len(last.fetched) :
              i < j => last.fetched[i].created_at >= last.fetched[j].created_at
        /\ store = {} => last.fetched = <<>>

C11_Witness ==
    /\ last.op = "list"
    /\ Len(last.fetched) = MaxTodos
    /\ last.fetched[1].created_at > last.fetched[MaxTodos].created_at

\* C12: FindTodoByID on the id a CreateTodo returned, with no update or
\* delete of that id in between, returns an entity with that id and the
\* title and description submitted: CreateTodo stores them under the id it
\* returns, only UpdateTodo and DeleteTodo of that id change them, and
\* FindTodoByID returns the stored row.
C12_CreateFindRoundTrip ==
    /\ [][(last'.op = "CreateTodo" /\ last'.err = ErrNil) =>
            /\ last'.ret # {}
            /\ TheOne(last'.ret).id = last'.id
            /\ \E r \in store' : /\ r.id = last'.id
                                 /\ r.title = last'.req.title
                                 /\ r.description = last'.req.description]_vars
    /\ [][\A r \in store :
            ~(last'.op \in {"UpdateTodo", "DeleteTodo"} /\ last'.id = r.id) =>
                \E r2 \in store' : /\ r2.id = r.id
                                   /\ r2.title = r.title
                                   /\ r2.description = r.description]_vars
    /\ []((last.op = "FindTodoByID" /\ RowsOf(store, last.id) # {}) =>
            (last.err = ErrNil /\ last.ret = RowsOf(store, last.id)))
    /\ [][(/\ last.op = "CreateTodo" /\ last.err = ErrNil
           /\ last'.op = "FindTodoByID" /\ last'.id = last.id) =>
            /\ last'.err = ErrNil
            /\ last'.ret # {}
            /\ TheOne(last'.ret).id = last.id
            /\ TheOne(last'.ret).title = last.req.title
            /\ TheOne(last'.ret).description = last.req.description]_vars

C12_Witness ==
    /\ last.op = "FindTodoByID"
    /\ last.err = ErrNil
    /\ Returned.title = "Buy milk"
    /\ Cardinality(store) = 2
    /\ \E r \in store : r.id # last.id /\ r.title # Returned.title

\* C13: a process that has exited by normal completion, after a command that
\* reported a handled error, after a failed pre-command health check, or with
\* a framework error returned from Execute, has released (closed) its pool.
C13_PoolReleased ==
    \A p \in Procs :
        (/\ procs[p].pc = "exited"
         /\ procs[p].path \in {"normal", "handled", "health", "framework"}) =>
            procs[p].pool = "closed"

\* C14: an invocation that has made a service or gateway call has pinged the
\* pool once, successfully, before it; an invocation whose health check failed
\* has exited with a non-zero status after one ping and no service or gateway
\* call, nothing follows it but a new process, and no step taken by a process
\* whose health check has not succeeded changes the store.
C14_HealthCheckFirst ==
    /\ [](\A p \in Procs :
            /\ (procs[p].svc > 0 \/ procs[p].gw > 0 \/ procs[p].pc \in {"run", "loaded", "return"}) =>
                  (procs[p].pings = 1 /\ procs[p].healthy)
            /\ (procs[p].pings > 0 /\ ~procs[p].healthy) =>
                  /\ procs[p].pc = "exited"
                  /\ procs[p].path = "health"
                  /\ procs[p].svc = 0
                  /\ procs[p].gw = 0
                  /\ procs[p].code # 0
                  /\ procs[p].pings = 1)
    /\ [][\A p \in Procs :
            /\ (procs[p].path = "health" /\ procs'[p] # procs[p]) =>
                  (procs'[p].pings = 0 /\ procs'[p].svc = 0 /\ store' = store)
            /\ (procs'[p] # procs[p] /\ store' # store) =>
                  (procs[p].healthy /\ procs[p].pings = 1)]_vars

C14_Witness ==
    /\ procs["A"].pc = "exited"
    /\ procs["A"].path = "health"
    /\ procs["A"].pings = 1
    /\ procs["A"].cmd = "delete"
    /\ RowsOf(store, procs["A"].id) # {}

\* C15 as stated: an invocation whose command has run has issued exactly one
\* service call, and that service call exactly one gateway call.
C15_OneCallEach ==
    \A p \in Procs :
        procs[p].pc = "return" => (procs[p].svc = 1 /\ procs[p].gw = 1)

\* C15, amended: an invocation issues at most one service call, and none when
\* its id argument is malformed, the health check fails, or the framework
\* rejects the command line. FindAllTodos, FindTodoByID, CreateTodo and
\* DeleteTodo issue exactly one gateway call; UpdateTodo and ToggleTodo issue
\* FindByID and, when it found the row, Update: two gateway calls.
C15_CallCounts ==
    \A p \in Procs :
        LET me == procs[p]
            badId == me.cmd \in TakesId /\ ~me.parsed
        IN  /\ me.svc <= 1
            /\ me.svc = 0 => me.gw = 0
            /\ me.path \in {"startup", "framework", "health"} => me.svc = 0
            /\ me.pc = "loaded" => (me.svc = 1 /\ me.gw = 1)
            /\ (me.pc = "return" \/ me.path \in {"normal", "handled"}) =>
                  /\ me.svc = (IF badId THEN 0 ELSE 1)
                  /\ me.gw = (IF badId THEN 0
                              ELSE IF me.cmd \in {"update", "toggle"} /\ me.err = ErrNil
                              THEN 2 ELSE 1)

C15_Witness ==
    /\ procs["A"].pc = "return"
    /\ procs["A"].cmd = "toggle"
    /\ procs["A"].err = ErrNil
    /\ procs["A"].svc = 1
    /\ procs["A"].gw = 2

\* C16: a list invocation whose fetch succeeded renders the table exactly
\* once, with all retained todos, when it retained at least one, and prints
\* "No TODOs found" otherwise: never more than one table, never no output.
C16_ListRendersOnce ==
    (last.op = "list" /\ last.err = ErrNil) =>
        IF Len(last.retained) > 0
        THEN last.tables = <<last.retained>> /\ ~last.noTodos
        ELSE last.tables = <<>> /\ last.noTodos

\* C17: with two processes interleaved, when the Update of an UpdateTodo or
\* ToggleTodo returns and the call reports success, the store holds a row
\* with the returned id, title and description; so a call whose row another
\* process deleted between its FindByID and its Update does not report
\* success.
C17_SuccessMeansStored ==
    [][\A p \in Procs :
         (/\ procs[p].pc = "loaded"
          /\ procs'[p].pc = "return"
          /\ procs'[p].err = ErrNil) =>
             \E r \in store' :
                \E t \in procs'[p].todo :
                   /\ r.id = t.id
                   /\ r.title = t.title
                   /\ r.description = t.description]_vars
====
